---- MODULE Spec2Model ----
(***************************************************************************)
(* The User model (Validate, ValidateUpdate, HashPassword,                 *)
(* ComparePassword, beforeCreate, beforeUpdate) and the configuration      *)
(* loader (Load, getEnv) of the boilerplate.                               *)
(*                                                                         *)
(* Strings are sequences of one-character tokens, so that len() is the     *)
(* byte length the validation rules and bcrypt see.  The token NUL is the  *)
(* zero byte.  Role and Status values are short and are kept as atoms.     *)
(***************************************************************************)
EXTENDS Integers, Sequences, FiniteSets, TLC

VARIABLES
    u,          \* the User record the methods are called on
    cand,       \* the candidate as it was supplied (u before any method ran)
    last,       \* the last call: its name, argument, returned error, u before it
    checked,    \* the latest Validate call: its error, and whether beforeCreate had run
    created,    \* beforeCreate has run on u
    createdAt0, \* the CreatedAt the latest beforeCreate stored
    now,        \* time.Now(), Go's monotonic reading
    dns,        \* the hosts net.LookupMX / net.LookupIP resolve
    rejectLong, \* the linked x/crypto/bcrypt refuses passwords over 72 bytes
    env,        \* the process environment
    dotenv,     \* the .env file in the working directory: present or not, its keys
    cfg         \* the *Config the last Load returned

vars == <<u, cand, last, checked, created, createdAt0, now, dns, rejectLong, env, dotenv, cfg>>

cfgVars == <<env, dotenv, cfg>>

world == <<dns, rejectLong>>

----------------------------------------------------------------------------
(* Bounds of the model *)

MaxNameLen == 51
MaxPwLen == 74
NumSalts == 2
MaxTime == 2
MaxRehash == 2

----------------------------------------------------------------------------
(* Constants of models/user.go *)

UserStatusActive == "active"
UserStatusInactive == "inactive"
UserStatusBanned == "banned"
MinPasswordLength == 8
MaxPasswordLength == 72
RoleAdmin == "admin"
RoleUser == "user"

Roles == {RoleAdmin, RoleUser}
Statuses == {UserStatusActive, UserStatusInactive, UserStatusBanned}

----------------------------------------------------------------------------
(* Strings *)

NUL == "NUL"

Rep(c, n) == [i \in 1..n |-> c]

\* a password field: a plaintext (salts = <<>>, bytes = its bytes) or a bcrypt
\* hash string (bytes = the key material the digest was computed from, salts =
\* the salts of the successive bcrypt applications, innermost first)
Plain(bytes) == [bytes |-> bytes, salts |-> <<>>]

IsPlain(pw) == pw.salts = <<>>

\* len(hash): "$2a$10$", 22 characters of salt, 31 of digest
BcryptHashLen == 7 + 22 + 31

StrLen(pw) == IF IsPlain(pw) THEN Len(pw.bytes) ELSE BcryptHashLen

----------------------------------------------------------------------------
(* Errors returned by the methods *)

NoError == [kind |-> "nil", code |-> "", msg |-> "", fields |-> {}]

\* validation.Errors: field name -> message
FieldErrors(fs) == [kind |-> "errors", code |-> "", msg |-> "", fields |-> fs]

\* validation.NewInternalError(ErrStructPointer)
ErrStructPointer ==
    [kind |-> "internal", code |-> "",
     msg |-> "only a pointer to a struct can be validated", fields |-> {}]

\* validation.NewError(code, message)
NewError(code, msg) == [kind |-> "error", code |-> code, msg |-> msg, fields |-> {}]

BcryptError(msg) == [kind |-> "bcrypt", code |-> "", msg |-> msg, fields |-> {}]

----------------------------------------------------------------------------
(* ozzo-validation rules, as the calls in Validate / ValidateUpdate use them. *)
(* A rule applied to a value is [ok, msg]: whether it passes and the message  *)
(* given with .Error(...).                                                    *)

Pass == [ok |-> TRUE, msg |-> ""]

\* validation.Required on a string: fails on the empty string (no trimming)
Required(length, msg) == [ok |-> length # 0, msg |-> msg]

\* validation.Length(min, max): the empty value passes; otherwise min <= len <= max
LengthOK(min, max, l) ==
    ~ ( (min > 0 /\ l < min) \/ (max > 0 /\ l > max) \/ (min = 0 /\ max = 0 /\ l > 0) )

Length(min, max, length, msg) ==
    [ok |-> length = 0 \/ LengthOK(min, max, length), msg |-> msg]

\* validation.In(values...): the empty value passes; otherwise membership
In(values, v, msg) == [ok |-> v = "" \/ v \in values, msg |-> msg]

\* validation.When(condition, rules...)
When(condition, rule) == IF condition THEN rule ELSE Pass

----------------------------------------------------------------------------
(* is.Email: govalidator.IsExistingEmail *)

UserAlphabet == {"a", "b", "c", "e", "l", "m", "o", "p", "x", "."}
Whitespace == {" "}

\* strings.LastIndex(email, "@"), 1-based; 0 when there is none
LastIndexAt(s) ==
    LET at == {i \in 1..Len(s) : s[i] = "@"}
    IN IF at = {} THEN 0 ELSE CHOOSE i \in at : \A j \in at : j <= i

HostLocalhost == <<"l", "o", "c", "a", "l", "h", "o", "s", "t">>
HostExample == <<"e", "x", "a", "m", "p", "l", "e", ".", "c", "o", "m">>

\* userDotRegexp: a leading dot, a trailing dot or two dots in a row
UserDotMatch(user) ==
    \/ user[1] = "."
    \/ user[Len(user)] = "."
    \/ \E i \in 1..(Len(user) - 1) : user[i] = "." /\ user[i + 1] = "."

\* userRegexp: one or more characters of the local-part alphabet
UserMatch(user) == Len(user) >= 1 /\ \A i \in 1..Len(user) : user[i] \in UserAlphabet

\* hostRegexp ^[^\s]+\.[^\s]+$
HostMatch(host) ==
    /\ \A i \in 1..Len(host) : host[i] \notin Whitespace
    /\ \E i \in 2..(Len(host) - 1) : host[i] = "."

IsExistingEmail(email, resolvable) ==
    LET at == LastIndexAt(email)
        user == SubSeq(email, 1, at - 1)
        host == SubSeq(email, at + 1, Len(email))
    IN  IF Len(email) < 6 \/ Len(email) > 254 THEN FALSE
        ELSE IF at <= 1 \/ at > Len(email) - 2 THEN FALSE
        ELSE IF Len(user) > 64 THEN FALSE
        ELSE IF host \in {HostLocalhost, HostExample} THEN TRUE
        ELSE IF UserDotMatch(user) \/ ~UserMatch(user) \/ ~HostMatch(host) THEN FALSE
        ELSE host \in resolvable

\* a StringRule: the empty value passes; otherwise the validator decides
IsEmail(email, resolvable, msg) ==
    [ok |-> Len(email) = 0 \/ IsExistingEmail(email, resolvable), msg |-> msg]

----------------------------------------------------------------------------
(* validation.ValidateStruct *)

\* validation.Validate(value, rules...): the first failing rule's error, "" for nil
RECURSIVE ValidateValue(_)
ValidateValue(rules) ==
    IF rules = <<>> THEN ""
    ELSE IF ~Head(rules).ok THEN Head(rules).msg
    ELSE ValidateValue(Tail(rules))

\* a loop that returns at the first field in error
RECURSIVE ValidateFieldsFirstOnly(_, _)
ValidateFieldsFirstOnly(fields, errs) ==
    IF fields = <<>> THEN errs
    ELSE LET fr == Head(fields)
             err == ValidateValue(fr.rules)
         IN IF err = "" THEN ValidateFieldsFirstOnly(Tail(fields), errs)
            ELSE errs \cup {<<fr.name, err>>}

\* the loop over the FieldRules: every field is validated, its error is stored
\* under the field's json name, and the loop goes on to the next field
RECURSIVE ValidateFields(_, _)
ValidateFields(fields, errs) ==
    IF fields = <<>> THEN errs
    ELSE LET fr == Head(fields)
             err == ValidateValue(fr.rules)
         IN ValidateFields(Tail(fields),
                           IF err = "" THEN errs ELSE errs \cup {<<fr.name, err>>})

\* structPtr must be a pointer to a struct: ptrDepth counts the pointer levels
\* between the argument and the struct (1 for *User, 2 for **User)
ValidateStruct(ptrDepth, fields) ==
    IF ptrDepth # 1 THEN ErrStructPointer
    ELSE LET errs == ValidateFields(fields, {})
         IN IF errs # {} THEN FieldErrors(errs) ELSE NoError

Field(name, rules) == [name |-> name, rules |-> rules]

----------------------------------------------------------------------------
(* models/user.go *)

NameRules(usr) ==
    << Required(Len(usr.Name), "name is required"),
       Length(2, 50, Len(usr.Name), "name must be between 2 and 50 characters") >>

EmailRules(usr, resolvable) ==
    << Required(Len(usr.Email), "email is required"),
       IsEmail(usr.Email, resolvable, "invalid email format") >>

\* the upper limit taken as exclusive
PasswordRulesOffByOne(usr) ==
    << Required(StrLen(usr.Password), "password is required"),
       Length(MinPasswordLength, MaxPasswordLength - 1, StrLen(usr.Password),
              "password must be between 8 and 72 characters") >>

PasswordRules(usr) ==
    << Required(StrLen(usr.Password), "password is required"),
       Length(MinPasswordLength, MaxPasswordLength, StrLen(usr.Password),
              "password must be between 8 and 72 characters") >>

PasswordUpdateRules(usr) ==
    << When(StrLen(usr.Password) > 0,
            Length(MinPasswordLength, MaxPasswordLength, StrLen(usr.Password),
                   "password must be between 8 and 72 characters")) >>

RoleRules(usr) ==
    << Required(IF usr.Role = "" THEN 0 ELSE 1, "role is required"),
       In(Roles, usr.Role, "invalid role") >>

StatusRules(usr) ==
    << Required(IF usr.Status = "" THEN 0 ELSE 1, "status is required"),
       In(Statuses, usr.Status, "invalid status") >>

\* func (u User) Validate() error: u is a User, &u a *User
Validate(usr, resolvable) ==
    ValidateStruct(1,
        << Field("name", NameRules(usr)),
           Field("email", EmailRules(usr, resolvable)),
           Field("password", PasswordRules(usr)),
           Field("role", RoleRules(usr)),
           Field("status", StatusRules(usr)) >>)

\* func (u *User) ValidateUpdate() error: u is a *User, &u a **User
ValidateUpdate(usr, resolvable) ==
    ValidateStruct(2,
        << Field("name", NameRules(usr)),
           Field("email", EmailRules(usr, resolvable)),
           Field("password", PasswordUpdateRules(usr)),
           Field("role", RoleRules(usr)),
           Field("status", StatusRules(usr)) >>)

----------------------------------------------------------------------------
(* bcrypt, as HashPassword and ComparePassword use it *)

\* the bytes of the key Blowfish's ExpandKey reads: 18 words of 4 bytes
BlowfishKeyBytes == 18 * 4

\* expensiveBlowfishSetup appends a zero byte to the password, and ExpandKey
\* reads the result cyclically
KeyStream(bytes) ==
    LET ckey == Append(bytes, NUL)
    IN [i \in 1..BlowfishKeyBytes |-> ckey[((i - 1) % Len(ckey)) + 1]]

\* the hash string of a password under a salt.  The digest is a function of
\* the salt and the key stream (taken to be injective); a hash string, 60
\* NUL-free bytes, is its own key material.
BcryptHash(pw, salt) ==
    IF IsPlain(pw) THEN [bytes |-> KeyStream(pw.bytes), salts |-> <<salt>>]
    ELSE [bytes |-> pw.bytes, salts |-> Append(pw.salts, salt)]

\* bcrypt.GenerateFromPassword(password, DefaultCost): [err, hash]
GenerateFromPassword(pw, salt, refuseLong) ==
    IF refuseLong /\ StrLen(pw) > BlowfishKeyBytes
    THEN [err |-> BcryptError("bcrypt: password length exceeds 72 bytes"), hash |-> pw]
    ELSE [err |-> NoError, hash |-> BcryptHash(pw, salt)]

\* bcrypt.CompareHashAndPassword(hashedPassword, password)
CompareHashAndPassword(stored, pw) ==
    IF IsPlain(stored)
    THEN BcryptError(IF Len(stored.bytes) < BcryptHashLen
                     THEN "crypto/bcrypt: hashedSecret too short to be a bcrypted password"
                     ELSE "crypto/bcrypt: bcrypt hashes must start with '$'")
    ELSE IF BcryptHash(pw, stored.salts[Len(stored.salts)]) = stored
    THEN NoError
    ELSE BcryptError("crypto/bcrypt: hashedPassword is not the hash of the given password")

\* HashPassword without its guard on the empty password
HashPasswordNoEmptyCheck(usr, salt, refuseLong) ==
    LET g == GenerateFromPassword(usr.Password, salt, refuseLong)
    IN IF g.err # NoError THEN [err |-> g.err, u |-> usr]
       ELSE [err |-> NoError, u |-> [usr EXCEPT !.Password = g.hash]]

\* func (u *User) HashPassword() error: [err, u]
HashPassword(usr, salt, refuseLong) ==
    IF StrLen(usr.Password) = 0
    THEN [err |-> NewError("validation_error", "password cannot be empty"), u |-> usr]
    ELSE LET g == GenerateFromPassword(usr.Password, salt, refuseLong)
         IN IF g.err # NoError THEN [err |-> g.err, u |-> usr]
            ELSE [err |-> NoError, u |-> [usr EXCEPT !.Password = g.hash]]

\* a comparison that only checks that a hash is stored
ComparePasswordAnyPassword(usr, password) ==
    IF IsPlain(usr.Password) THEN CompareHashAndPassword(usr.Password, password)
    ELSE NoError

\* func (u *User) ComparePassword(password string) error
ComparePassword(usr, password) == CompareHashAndPassword(usr.Password, password)

\* beforeCreate that sets the timestamps only
beforeCreateNoDefaults(usr, t) == [usr EXCEPT !.CreatedAt = t, !.UpdatedAt = t]

\* beforeCreate that overwrites a supplied role with the default
beforeCreateForcesRole(usr, t) ==
    [usr EXCEPT !.CreatedAt = t,
                !.UpdatedAt = t,
                !.Role = RoleUser,
                !.Status = IF usr.Status = "" THEN UserStatusActive ELSE usr.Status]

\* func (u *User) beforeCreate(tx *gorm.DB) error
beforeCreate(usr, t) ==
    [usr EXCEPT !.CreatedAt = t,
                !.UpdatedAt = t,
                !.Role = IF usr.Role = "" THEN RoleUser ELSE usr.Role,
                !.Status = IF usr.Status = "" THEN UserStatusActive ELSE usr.Status]

\* beforeUpdate that refreshes both timestamps
beforeUpdateTouchesCreatedAt(usr, t) == [usr EXCEPT !.UpdatedAt = t, !.CreatedAt = t]

\* func (u *User) beforeUpdate(tx *gorm.DB) error
beforeUpdate(usr, t) == [usr EXCEPT !.UpdatedAt = t]

----------------------------------------------------------------------------
(* config/config.go *)

Unset == "<unset>"

EnvKeys == {"SERVER_PORT", "MONGODB_URI", "MONGODB_NAME", "MONGODB_DATABASE"}

\* godotenv.Load(): every key of .env that the environment does not hold is set
GodotenvLoad(environ, file) ==
    IF ~file.present THEN environ
    ELSE [k \in EnvKeys |->
            IF environ[k] = Unset /\ file.vars[k] # Unset THEN file.vars[k]
            ELSE environ[k]]

\* os.Getenv: "" for a variable that is not set
Getenv(environ, key) == IF environ[key] = Unset THEN "" ELSE environ[key]

\* getEnv that falls back only when the variable is not set
getEnvLookup(environ, key, defaultValue) ==
    IF environ[key] = Unset THEN defaultValue ELSE environ[key]

getEnv(environ, key, defaultValue) ==
    LET value == Getenv(environ, key)
    IN IF value = "" THEN defaultValue ELSE value

\* Load, on the environment godotenv.Load() left
Load(environ) ==
    [Port |-> getEnv(environ, "SERVER_PORT", "8080"),
     URI |-> getEnv(environ, "MONGODB_URI", "mongodb://localhost:27017"),
     NAME |-> getEnv(environ, "MONGODB_NAME", "Test")]

----------------------------------------------------------------------------
(* Inputs *)

NameLens == {0, 1, 2, 50, MaxNameLen}
Names == {Rep("a", n) : n \in NameLens}

EmailEmpty == <<>>
EmailBCom == <<"a", "@", "b", ".", "c", "o", "m">>
EmailExample == <<"a", "@">> \o HostExample
EmailNoAt == <<"a", "b", ".", "c", "o", "m">>
EmailShort == <<"a", "@", "b", ".", "c">>
EmailSpace == <<"a", " ", "b", "@">> \o HostExample
Emails == {EmailEmpty, EmailBCom, EmailExample, EmailNoAt, EmailShort, EmailSpace}

HostBCom == <<"b", ".", "c", "o", "m">>

PwLens == {0, 1, 7, 8, 72, 73, MaxPwLen}
Passwords ==
    {Plain(Rep("a", n)) : n \in PwLens}
        \cup {Plain(<<"a", NUL, "a">>), Plain(Rep("b", 8))}

RoleInputs == {"", RoleAdmin, RoleUser, "root"}
StatusInputs == {"", UserStatusActive, UserStatusInactive, UserStatusBanned, "deleted"}

Salts == 1..NumSalts

\* a User as the HTTP layer binds it from a request body
NewUser(name, email, password, role, status, createdAt, updatedAt) ==
    [ID |-> 0, Name |-> name, Email |-> email, Password |-> password,
     Role |-> role, Status |-> status,
     CreatedAt |-> createdAt, UpdatedAt |-> updatedAt, DeletedAt |-> 0]

NoCall(usr) == [op |-> "none", arg |-> Plain(<<>>), err |-> NoError, before |-> usr]

Call(op, arg, err, before) == [op |-> op, arg |-> arg, err |-> err, before |-> before]

NotChecked == [called |-> FALSE, err |-> NoError, created |-> FALSE]

ZeroConfig == [Port |-> "", URI |-> "", NAME |-> ""]

NoEnv == [k \in EnvKeys |-> Unset]

InitConfigIdle ==
    /\ env = NoEnv
    /\ dotenv = [present |-> FALSE, vars |-> NoEnv]
    /\ cfg = [loaded |-> FALSE, value |-> ZeroConfig]

\* the record is as bound: no method has run on it yet
InitFresh ==
    /\ cand = u
    /\ last = NoCall(u)
    /\ checked = NotChecked
    /\ created = FALSE
    /\ createdAt0 = 0
    /\ now = 0

----------------------------------------------------------------------------
(* Validation of bound candidates: Validate and ValidateUpdate *)

InitValidate ==
    /\ \E n \in Names, e \in Emails, p \in Passwords,
          r \in RoleInputs, s \in StatusInputs :
            u = NewUser(n, e, p, r, s, 0, 0)
    /\ InitFresh
    /\ dns \in SUBSET {HostBCom}
    /\ rejectLong = TRUE
    /\ InitConfigIdle

ValidateAct ==
    LET err == Validate(u, dns)
    IN /\ last' = Call("Validate", Plain(<<>>), err, u)
       /\ checked' = [called |-> TRUE, err |-> err, created |-> created]
       /\ UNCHANGED <<u, cand, created, createdAt0, now, world, cfgVars>>

ValidateUpdateAct ==
    /\ last' = Call("ValidateUpdate", Plain(<<>>), ValidateUpdate(u, dns), u)
    /\ UNCHANGED <<u, cand, checked, created, createdAt0, now, world, cfgVars>>

NextValidate == ValidateAct \/ ValidateUpdateAct

SpecValidate == InitValidate /\ [][NextValidate]_vars

----------------------------------------------------------------------------
(* The methods called on one record over its life *)

NameOK == Rep("a", 2)

LifeTimes == {0, MaxTime}

LifePasswords == {Plain(Rep("a", n)) : n \in {0, MinPasswordLength, MaxPwLen}}

InitUser ==
    /\ \E p \in LifePasswords, r \in RoleInputs, s \in {"", UserStatusActive, "deleted"},
          c \in LifeTimes, t \in LifeTimes :
            u = NewUser(NameOK, EmailExample, p, r, s, c, t)
    /\ InitFresh
    /\ dns = {}
    /\ rejectLong \in BOOLEAN
    /\ InitConfigIdle

HashPasswordAct ==
    /\ Len(u.Password.salts) < MaxRehash
    /\ \E salt \in Salts :
        LET r == HashPassword(u, salt, rejectLong)
        IN /\ u' = r.u
           /\ last' = Call("HashPassword", Plain(<<>>), r.err, u)
    /\ UNCHANGED <<cand, checked, created, createdAt0, now, world, cfgVars>>

ComparePasswordAct ==
    /\ \E password \in Passwords :
        last' = Call("ComparePassword", password, ComparePassword(u, password), u)
    /\ UNCHANGED <<u, cand, checked, created, createdAt0, now, world, cfgVars>>

beforeCreateAct ==
    /\ \E t \in now..MaxTime :
        /\ now' = t
        /\ u' = beforeCreate(u, t)
        /\ createdAt0' = u'.CreatedAt
    /\ created' = TRUE
    /\ last' = Call("beforeCreate", Plain(<<>>), NoError, u)
    /\ UNCHANGED <<cand, checked, world, cfgVars>>

beforeUpdateAct ==
    /\ \E t \in now..MaxTime :
        /\ now' = t
        /\ u' = beforeUpdate(u, t)
    /\ last' = Call("beforeUpdate", Plain(<<>>), NoError, u)
    /\ UNCHANGED <<cand, checked, created, createdAt0, world, cfgVars>>

NextUser ==
    \/ ValidateAct
    \/ HashPasswordAct
    \/ beforeCreateAct
    \/ beforeUpdateAct

SpecUser == InitUser /\ [][NextUser]_vars

----------------------------------------------------------------------------
(* Hashing and checking passwords *)

InitPassword ==
    /\ \E p \in Passwords :
            u = NewUser(NameOK, EmailExample, p, RoleUser, UserStatusActive, 0, 0)
    /\ InitFresh
    /\ dns = {}
    /\ rejectLong \in BOOLEAN
    /\ InitConfigIdle

NextPassword == HashPasswordAct \/ ComparePasswordAct

SpecPassword == InitPassword /\ [][NextPassword]_vars

----------------------------------------------------------------------------
(* Loading the configuration *)

EnvValue ==
    [k \in EnvKeys |->
        CASE k = "SERVER_PORT" -> "9090"
          [] k = "MONGODB_URI" -> "mongodb://db:27017"
          [] k = "MONGODB_NAME" -> "prod"
          [] k = "MONGODB_DATABASE" -> "go_echo_db"]

FileValue ==
    [k \in EnvKeys |->
        CASE k = "SERVER_PORT" -> "3000"
          [] k = "MONGODB_URI" -> "mongodb://file:27017"
          [] k = "MONGODB_NAME" -> "dev"
          [] k = "MONGODB_DATABASE" -> "file_db"]

Environments == {e \in [EnvKeys -> {Unset, ""} \cup {EnvValue[k] : k \in EnvKeys}] :
                    \A k \in EnvKeys : e[k] \in {Unset, "", EnvValue[k]}}

DotenvFiles == {f \in [EnvKeys -> {Unset, ""} \cup {FileValue[k] : k \in EnvKeys}] :
                    \A k \in EnvKeys : f[k] \in {Unset, "", FileValue[k]}}

InitConfig ==
    /\ env \in Environments
    /\ dotenv \in {[present |-> FALSE, vars |-> NoEnv]}
                    \cup {[present |-> TRUE, vars |-> f] : f \in DotenvFiles}
    /\ cfg = [loaded |-> FALSE, value |-> ZeroConfig]
    /\ u = NewUser(<<>>, <<>>, Plain(<<>>), "", "", 0, 0)
    /\ InitFresh
    /\ dns = {}
    /\ rejectLong = TRUE

LoadAct ==
    /\ env' = GodotenvLoad(env, dotenv)
    /\ cfg' = [loaded |-> TRUE, value |-> Load(env')]
    /\ UNCHANGED <<u, cand, last, checked, created, createdAt0, now, world, dotenv>>

NextConfig == LoadAct

SpecConfig == InitConfig /\ [][NextConfig]_vars

----------------------------------------------------------------------------
(* The rules of the fields, stated on the values *)

FieldNames == {"name", "email", "password", "role", "status"}

NoNUL(bytes) == \A i \in 1..Len(bytes) : bytes[i] # NUL

RuleHolds(f, usr, resolvable) ==
    CASE f = "name" -> Len(usr.Name) \in 2..50
      [] f = "email" -> usr.Email # <<>> /\ IsExistingEmail(usr.Email, resolvable)
      [] f = "password" -> StrLen(usr.Password) \in 8..72
      [] f = "role" -> usr.Role \in {"admin", "user"}
      [] f = "status" -> usr.Status \in {"active", "inactive", "banned"}

BrokenFields(usr, resolvable) == {f \in FieldNames : ~RuleHolds(f, usr, resolvable)}

Reported(err) == {e[1] : e \in err.fields}

\* name, email, role and status are valid and the password is empty
ValidButPassword(usr, resolvable) ==
    BrokenFields(usr, resolvable) \subseteq {"password"}

----------------------------------------------------------------------------
(* C1: ValidateUpdate returns no error for every record whose name, email,  *)
(* role and status are valid and whose password is the empty string.        *)
C1_UpdateMayOmitPassword ==
    ( /\ last.op = "ValidateUpdate"
      /\ ValidButPassword(u, dns)
      /\ u.Password = Plain(<<>>) )
        => last.err = NoError

(* C2: for every record with a non-empty password, ValidateUpdate and       *)
(* Validate give the same outcome: both succeed, or both fail with the same *)
(* fields and messages.                                                     *)
C2_UpdateAgreesWithCreate ==
    (last.op = "ValidateUpdate" /\ StrLen(u.Password) > 0)
        => last.err = Validate(u, dns)

----------------------------------------------------------------------------
\* a candidate with valid name, email and password, and empty role and status
CandidateWithoutRole ==
    /\ BrokenFields(cand, dns) = {"role", "status"}
    /\ cand.Role = ""
    /\ cand.Status = ""

(* C3, as claimed: on the creation path such a candidate passes Validate,   *)
(* and the path ends with role "user", status "active" and a password that  *)
(* is not the plaintext.                                                    *)
C3_CandidatePassesValidate ==
    CandidateWithoutRole =>
        /\ (checked.called /\ ~checked.created) => checked.err = NoError
        /\ created => (u.Role = "user" /\ u.Status = "active")
        /\ last.op = "HashPassword" => u.Password # cand.Password

(* C3, amended: such a candidate fails Validate, which reports exactly role *)
(* ("role is required") and status ("status is required"); beforeCreate     *)
(* sets role "user" and status "active" on it, and HashPassword succeeds    *)
(* and leaves a password that is not the plaintext.                         *)
C3_CreationPath ==
    CandidateWithoutRole =>
        /\ (checked.called /\ ~checked.created) =>
              checked.err = FieldErrors({<<"role", "role is required">>,
                                         <<"status", "status is required">>})
        /\ created => (u.Role = "user" /\ u.Status = "active")
        /\ last.op = "HashPassword" =>
              (last.err = NoError /\ u.Password # cand.Password /\ ~IsPlain(u.Password))

C3_Witness ==
    /\ CandidateWithoutRole
    /\ checked.called /\ ~checked.created /\ checked.err.kind = "errors"
    /\ created
    /\ last.op = "HashPassword"
    /\ u.Role = "user" /\ u.Status = "active"
    /\ IsPlain(last.before.Password)

----------------------------------------------------------------------------
(* C4: Validate reports every failing field together: the fields named in   *)
(* the returned error are exactly the fields that break their rule, and the *)
(* outcome is nil or a field -> message error value, never a panic.         *)
C4_EveryFailingFieldReported ==
    last.op = "Validate" =>
        /\ last.err.kind \in {"nil", "errors"}
        /\ Reported(last.err) = BrokenFields(u, dns)
        /\ (last.err = NoError) <=> (BrokenFields(u, dns) = {})

C4_Witness ==
    /\ last.op = "Validate"
    /\ Reported(last.err) = {"name", "status"}
    /\ u.Name = Rep("a", 1)

(* C5: in Validate the password check passes for every plaintext of length  *)
(* 8 to 72 and fails, reporting the password field, for the empty password  *)
(* and for every length below 8 or above 72.                                *)
C5_PasswordLength ==
    (last.op = "Validate" /\ IsPlain(u.Password)) =>
        LET l == Len(u.Password.bytes)
        IN /\ l \in 8..72 => "password" \notin Reported(last.err)
           /\ l = 0 => <<"password", "password is required">> \in last.err.fields
           /\ (l \in 1..7 \/ l >= 73) =>
                <<"password", "password must be between 8 and 72 characters">>
                    \in last.err.fields

C5_Witness ==
    /\ last.op = "Validate"
    /\ u.Password = Plain(Rep("a", 72))
    /\ "password" \notin Reported(last.err)

----------------------------------------------------------------------------
(* C6: HashPassword on a record whose password is empty fails with the      *)
(* validation error (code "validation_error"), produces no hash and leaves  *)
(* every field of the record unchanged.                                     *)
C6_EmptyPasswordRejected ==
    (last.op = "HashPassword" /\ last.before.Password = Plain(<<>>)) =>
        /\ last.err.kind = "error"
        /\ last.err.code = "validation_error"
        /\ u = last.before

C6_Witness ==
    /\ last.op = "HashPassword"
    /\ last.before.Password = Plain(<<>>)
    /\ last.err.code = "validation_error"

----------------------------------------------------------------------------
\* the stored password is the hash of the candidate's plaintext
HashedOnce == Len(u.Password.salts) = 1 /\ IsPlain(cand.Password)

(* C7, as claimed: for any non-empty plaintext p, HashPassword succeeds and *)
(* replaces the password by a value different from p; then                  *)
(* ComparePassword(p) is nil and ComparePassword(q) is non-nil for every    *)
(* q different from p.                                                      *)
C7_AnyPlaintext ==
    /\ ( /\ last.op = "HashPassword"
         /\ IsPlain(last.before.Password)
         /\ Len(last.before.Password.bytes) > 0 )
          => (last.err = NoError /\ u.Password # last.before.Password)
    /\ ( /\ last.op = "ComparePassword"
         /\ HashedOnce
         /\ Len(cand.Password.bytes) > 0 )
          => ((last.err = NoError) <=> (last.arg = cand.Password))

\* a password bcrypt reads whole: at most 72 bytes, none of them zero
ReadWhole(pw) == Len(pw.bytes) <= 72 /\ NoNUL(pw.bytes)

(* C7, amended: for any non-empty plaintext p of at most 72 bytes without a *)
(* zero byte, HashPassword succeeds and replaces the password by a value    *)
(* different from p; then ComparePassword(p) is nil, and ComparePassword(q) *)
(* is non-nil for every q different from p that is itself at most 72 bytes  *)
(* long without a zero byte.                                                *)
C7_HashThenCompare ==
    /\ ( /\ last.op = "HashPassword"
         /\ IsPlain(last.before.Password)
         /\ Len(last.before.Password.bytes) > 0
         /\ ReadWhole(last.before.Password) )
          => (last.err = NoError /\ u.Password # last.before.Password)
    /\ ( /\ last.op = "ComparePassword"
         /\ HashedOnce
         /\ Len(cand.Password.bytes) > 0
         /\ ReadWhole(cand.Password) )
          => /\ last.arg = cand.Password => last.err = NoError
             /\ (last.arg # cand.Password /\ ReadWhole(last.arg)) => last.err # NoError

C7_Witness ==
    /\ last.op = "ComparePassword"
    /\ HashedOnce
    /\ cand.Password = Plain(Rep("a", 72))
    /\ last.arg = Plain(Rep("a", 8))
    /\ last.err # NoError

----------------------------------------------------------------------------
(* C8, as claimed: after beforeCreate and any later beforeUpdate and        *)
(* HashPassword calls, role is one of {admin, user} and status one of       *)
(* {active, inactive, banned}.                                              *)
C8_AlwaysEnumerated ==
    created => (u.Role \in {"admin", "user"} /\ u.Status \in {"active", "inactive", "banned"})

(* C8, amended: when the role given to beforeCreate is empty or one of      *)
(* {admin, user} and the status is empty or one of {active, inactive,       *)
(* banned}, then after beforeCreate and any later beforeUpdate and          *)
(* HashPassword calls role and status are in these sets; no operation       *)
(* changes a role or status that was supplied non-empty, so any other       *)
(* string supplied is left as it is.                                        *)
C8_EnumeratedWhenSupplied ==
    /\ ( /\ created
         /\ cand.Role \in {"", "admin", "user"}
         /\ cand.Status \in {"", "active", "inactive", "banned"} )
          => (u.Role \in {"admin", "user"} /\ u.Status \in {"active", "inactive", "banned"})
    /\ cand.Role # "" => u.Role = cand.Role
    /\ cand.Status # "" => u.Status = cand.Status

C8_Witness ==
    /\ created
    /\ cand.Role = "admin"
    /\ cand.Status = ""
    /\ u.Status = "active"
    /\ last.op = "beforeUpdate"
    /\ ~IsPlain(u.Password)

----------------------------------------------------------------------------
(* C9: after beforeCreate and any number of beforeUpdate calls, created_at  *)
(* is still the value beforeCreate set and updated_at >= created_at; each   *)
(* beforeUpdate changes only updated_at, to a value not smaller than the    *)
(* previous one.                                                            *)
C9_Timestamps ==
    created =>
        /\ u.CreatedAt = createdAt0
        /\ u.UpdatedAt >= u.CreatedAt
        /\ last.op = "beforeUpdate" =>
              /\ u = [last.before EXCEPT !.UpdatedAt = u.UpdatedAt]
              /\ u.UpdatedAt >= last.before.UpdatedAt

C9_Witness ==
    /\ created
    /\ last.op = "beforeUpdate"
    /\ u.UpdatedAt > u.CreatedAt
    /\ cand.CreatedAt > u.CreatedAt

----------------------------------------------------------------------------
Default(k) ==
    CASE k = "SERVER_PORT" -> "8080"
      [] k = "MONGODB_URI" -> "mongodb://localhost:27017"
      [] k = "MONGODB_NAME" -> "Test"

Setting(k) == IF env[k] \in {Unset, ""} THEN Default(k) ELSE env[k]

====
